---- MODULE Spec2Model ----
(***************************************************************************)
(* A model of the memory-management and task-scheduling core of the        *)
(* kernel: the Sv39 page table (os/src/mm/page_table.rs), the PID          *)
(* allocator and kernel-stack placement (os/src/task/pid.rs), and the      *)
(* processor / idle control flow (os/src/task/processor.rs).               *)
(*                                                                         *)
(* A usize is a 64-bit word.  TLC's integers are 32 bits wide, so a word   *)
(* is kept as four 16-bit limbs <<l0, l1, l2, l3>>, least significant      *)
(* first, and the shifts, masks, additions and subtractions of the code    *)
(* are computed on the limbs.                                              *)
(***************************************************************************)
EXTENDS Integers, Sequences, FiniteSets, TLC

(***************************************************************************)
(* usize: 64-bit machine words                                             *)
(***************************************************************************)
USIZE_BITS == 64

Word == [1..4 -> 0..65535]

\* a natural below 2^31 as a word
FromNat(n) == <<n % 65536, n \div 65536, 0, 0>>

\* does the word fit TLC's naturals, and its value when it does
FitsNat(w) == w[2] < 32768 /\ w[3] = 0 /\ w[4] = 0
ToNat(w) == w[1] + 65536 * w[2]

WZero == <<0, 0, 0, 0>>

\* limb j (0..3) of w, 0 outside the word
LimbAt(w, j) == IF j >= 0 /\ j <= 3 THEN w[j + 1] ELSE 0

\* w << (16 * q + r): limb j takes the low bits of limb j-q and the high bits
\* of limb j-q-1
ShlBy(w, q, r) ==
    <<(LimbAt(w, 0 - q) % (2 ^ (16 - r))) * (2 ^ r) + (LimbAt(w, 0 - 1 - q) \div (2 ^ (16 - r))),
      (LimbAt(w, 1 - q) % (2 ^ (16 - r))) * (2 ^ r) + (LimbAt(w, 1 - 1 - q) \div (2 ^ (16 - r))),
      (LimbAt(w, 2 - q) % (2 ^ (16 - r))) * (2 ^ r) + (LimbAt(w, 2 - 1 - q) \div (2 ^ (16 - r))),
      (LimbAt(w, 3 - q) % (2 ^ (16 - r))) * (2 ^ r) + (LimbAt(w, 3 - 1 - q) \div (2 ^ (16 - r)))>>

\* w << n
Shl(w, n) == IF n >= USIZE_BITS THEN WZero ELSE ShlBy(w, n \div 16, n % 16)

\* w >> (16 * q + r): limb j takes the high bits of limb j+q and the low bits
\* of limb j+q+1
ShrBy(w, q, r) ==
    <<(LimbAt(w, 0 + q) \div (2 ^ r)) + (LimbAt(w, 1 + q) % (2 ^ r)) * (2 ^ (16 - r)),
      (LimbAt(w, 1 + q) \div (2 ^ r)) + (LimbAt(w, 2 + q) % (2 ^ r)) * (2 ^ (16 - r)),
      (LimbAt(w, 2 + q) \div (2 ^ r)) + (LimbAt(w, 3 + q) % (2 ^ r)) * (2 ^ (16 - r)),
      (LimbAt(w, 3 + q) \div (2 ^ r)) + (LimbAt(w, 4 + q) % (2 ^ r)) * (2 ^ (16 - r))>>

\* w >> n
Shr(w, n) == IF n >= USIZE_BITS THEN WZero ELSE ShrBy(w, n \div 16, n % 16)

\* x & y on 16-bit limbs, bit by bit from the lowest, until one side has no
\* bit left
RECURSIVE And16(_, _)
And16(x, y) ==
    IF x = 0 \/ y = 0 THEN 0
    ELSE IF y = 65535 THEN x
    ELSE IF x = 65535 THEN y
    ELSE ((x % 2) * (y % 2)) + 2 * And16(x \div 2, y \div 2)

BitAnd(a, b) == <<And16(a[1], b[1]), And16(a[2], b[2]), And16(a[3], b[3]), And16(a[4], b[4])>>

BitOr(a, b) ==
    <<a[1] + b[1] - And16(a[1], b[1]), a[2] + b[2] - And16(a[2], b[2]),
      a[3] + b[3] - And16(a[3], b[3]), a[4] + b[4] - And16(a[4], b[4])>>

BitNot(a) == <<65535 - a[1], 65535 - a[2], 65535 - a[3], 65535 - a[4]>>

\* limb k (1..4) of (1usize << n) - 1
MaskLimb(n, k) ==
    IF n >= 16 * k THEN 65535
    ELSE IF n <= 16 * (k - 1) THEN 0
    ELSE (2 ^ (n - 16 * (k - 1))) - 1

\* (1usize << n) - 1
LowMask(n) == <<MaskLimb(n, 1), MaskLimb(n, 2), MaskLimb(n, 3), MaskLimb(n, 4)>>

\* a + b + c limb by limb: the four limb sums, each still holding its carry
\* out, the carry of one limb going into the next
LimbSums3(a, b, s0, s1, s2) == <<s0, s1, s2, a[4] + b[4] + (s2 \div 65536)>>
LimbSums2(a, b, s0, s1) == LimbSums3(a, b, s0, s1, a[3] + b[3] + (s1 \div 65536))
LimbSums1(a, b, s0) == LimbSums2(a, b, s0, a[2] + b[2] + (s0 \div 65536))
LimbSums(a, b, c) == LimbSums1(a, b, a[1] + b[1] + c)

\* the limb sums without their carries
Wrapped(s) == <<s[1] % 65536, s[2] % 65536, s[3] % 65536, s[4] % 65536>>

\* a + b: the wrapped sum and whether it overflowed
WAddOf(s) == [val |-> Wrapped(s), ovf |-> s[4] >= 65536]
WAdd(a, b) == WAddOf(LimbSums(a, b, 0))

\* a - b = a + ~b + 1: the wrapped difference and whether it underflowed (a < b)
WSubOf(s) == [val |-> Wrapped(s), ovf |-> s[4] < 65536]
WSub(a, b) == WSubOf(LimbSums(a, BitNot(b), 1))

WLt(a, b) == WSub(a, b).ovf
WLe(a, b) == ~WLt(b, a)
WMin(a, b) == IF WLt(b, a) THEN b ELSE a

\* the positions of the set bits of b
SetBits(b) == {i \in 0..(USIZE_BITS - 1) : (b[(i \div 16) + 1] \div (2 ^ (i % 16))) % 2 = 1}

\* a * b by shift and add over the set bits of b, lowest first: the wrapped
\* product and whether it overflowed (a bit shifted out, or a carry out)
RECURSIVE MulOver(_, _, _)
MulAdd(a, S, acc, i, s) ==
    MulOver(a, S \ {i},
            [val |-> s.val, ovf |-> acc.ovf \/ Shr(a, USIZE_BITS - i) # WZero \/ s.ovf])
MulAt(a, S, acc, i) == MulAdd(a, S, acc, i, WAdd(acc.val, Shl(a, i)))
MulOver(a, S, acc) ==
    IF S = {} THEN acc ELSE MulAt(a, S, acc, CHOOSE x \in S : \A y \in S : x <= y)

WMul(a, b) == MulOver(a, SetBits(b), [val |-> WZero, ovf |-> FALSE])

(***************************************************************************)
(* State                                                                   *)
(***************************************************************************)
VARIABLES
    panicked,     \* the kernel hit a panic (unwrap of None, failed assert, overflow check) and halted
    \* the page table
    mem,          \* physical memory: the PTE array of every allocated table frame
    root_ppn,     \* PageTable.root_ppn
    frames,       \* PageTable.frames: the frames the table owns, in allocation order
    fa_current,   \* the frame allocator's next never-issued frame
    pt_mapped,    \* history: the vpns mapped by a map() and not unmapped since, each
                  \* with the ppn and flags its map() was given
    pt_last,      \* history: the last page table operation, its arguments and outcome
    bb_last,      \* history: the arguments and the result of translated_byte_buffer,
                  \* when it was the last page table operation
    \* the PID allocator
    pid_current,  \* PidAllocator.current
    pid_recycled, \* PidAllocator.recycled
    pid_live,     \* the PidHandles alive: how many hold each value
    pid_log,      \* history: the allocator calls made, with their results
    \* kernel stack placement
    overflow_checks, \* the build: arithmetic overflow panics (TRUE) or wraps (FALSE)
    ks_p,         \* a PID
    ks_q,         \* another PID
    ks_out,       \* kernel_stack_position of both, once computed
    \* the processor
    proc_current, \* Processor.current: a task, or NoTask for None
    flow,         \* the control flow the core executes: a task, or NoTask for the idle flow
    idle_pc,      \* where the idle flow stands in run_tasks
    ready_queue,  \* the ready queue fetch_task() takes from
    task_status,  \* TaskControlBlock.task_status of every task
    proc_last,    \* history: the last processor operation and its result
    processor_borrowed, \* PROCESSOR's exclusive-access guard is held
    inner_borrowed,     \* the tasks whose inner exclusive-access guard is held
    next_task_cx_ptr,   \* run_tasks: the task whose task_cx next_task_cx_ptr points to
    task_cx,      \* TaskControlBlock.task_cx of every task, and the context an exiting
                  \* task hands to schedule instead of its own
    idle_task_cx, \* Processor.idle_task_cx
    \* task timing
    time,         \* get_time()
    user_time,    \* TaskControlBlock.user_time of every task
    kernel_time,  \* TaskControlBlock.kernel_time of every task
    kt_log,       \* history: the update_kernel_time calls made, with the time and the result
    \* kernel stacks
    kstacks,      \* the KernelStack objects alive: the pid each holds, and which of the
                  \* handles of that pid it was made from
    kernel_space, \* KERNEL_SPACE: the kernel stack areas inserted and not removed
    ks_last       \* history: the last kernel stack operation and its outcome

pt_vars == <<mem, root_ppn, frames, fa_current, pt_mapped, pt_last, bb_last>>
pid_vars == <<pid_current, pid_recycled, pid_live, pid_log>>
ks_vars == <<overflow_checks, ks_p, ks_q, ks_out, kstacks, kernel_space, ks_last>>
guard_vars == <<processor_borrowed, inner_borrowed>>
cx_vars == <<task_cx, idle_task_cx>>
time_vars == <<time, user_time, kernel_time, kt_log>>
proc_vars == <<proc_current, flow, idle_pc, ready_queue, task_status, proc_last,
               next_task_cx_ptr, guard_vars, cx_vars, time_vars>>

vars == <<panicked, pt_vars, pid_vars, ks_vars, proc_vars>>

(***************************************************************************)
(* Page table entries (os/src/mm/page_table.rs)                            *)
(***************************************************************************)
PTEFlags_V == 1
PTEFlags_R == 2
PTEFlags_W == 4
PTEFlags_X == 8
PTEFlags_U == 16

\* PTEFlags is a u8 whose eight bits are all named: a flag set is 0..255
PTEFlags == 0..255

\* flags | other and flags & other on the u8
FlagsAnd(f, g) == And16(f, g)
FlagsOr(f, g) == f + g - And16(f, g)

\* bits: ppn.0 << 10 | flags.bits as usize
PageTableEntry_new(ppn, flags) == BitOr(Shl(ppn, 10), FromNat(flags))

PageTableEntry_empty == WZero

\* a ppn() whose mask is one bit short
PageTableEntry_ppn_Mask43(pte) == BitAnd(Shr(pte, 10), LowMask(43))

\* self.bits >> 10 & ((1usize << 44) - 1)
PageTableEntry_ppn(pte) == BitAnd(Shr(pte, 10), LowMask(44))

\* PTEFlags::from_bits(self.bits as u8).unwrap(): every u8 is a flag set
PageTableEntry_flags(pte) == ToNat(BitAnd(pte, LowMask(8)))

PageTableEntry_is_valid(pte) == FlagsAnd(PageTableEntry_flags(pte), PTEFlags_V) # 0
PageTableEntry_readable(pte) == FlagsAnd(PageTableEntry_flags(pte), PTEFlags_R) # 0
PageTableEntry_writable(pte) == FlagsAnd(PageTableEntry_flags(pte), PTEFlags_W) # 0
PageTableEntry_executable(pte) == FlagsAnd(PageTableEntry_flags(pte), PTEFlags_X) # 0

(***************************************************************************)
(* Inputs of the page table operations                                     *)
(***************************************************************************)
\* the largest Sv39 virtual page number: three 9-bit indexes, all 511
VPN_MAX == 134217727

\* vpns sharing a leaf table (0, 1), only a middle table (0, 512), only the
\* root (0, VPN_MAX)
VPNs == {0, 1, 512, VPN_MAX}

\* physical page numbers: a small one and the largest one of 44 bits
PPNs == {FromNat(16), LowMask(44)}

\* flag sets a caller passes: R|W|U and V|R|X
FlagSets == {PTEFlags_R + PTEFlags_W + PTEFlags_U, PTEFlags_V + PTEFlags_R + PTEFlags_X}

\* VirtPageNum::indexes: the three 9-bit fields, root level first
indexes(vpn) == <<(vpn \div 262144) % 512, (vpn \div 512) % 512, vpn % 512>>

\* the consecutive pages a user buffer is laid on
BufVPNs == {0, 1, 2}

\* the entries of a PTE array the inputs can touch
Idxs == UNION {{indexes(v)[1], indexes(v)[2], indexes(v)[3]} : v \in VPNs \cup BufVPNs}

(***************************************************************************)
(* The frame allocator                                                     *)
(***************************************************************************)
\* the first frame the allocator issues, and how many it has
FRAME_BASE == 525312
MaxFrames == 4

FRAME_END == FRAME_BASE + MaxFrames

\* a freshly allocated frame is zero-filled
ZeroFrame == [i \in Idxs |-> WZero]

\* frame_alloc(): the next never-issued frame, None when there is none left
frame_alloc(cur) == IF cur < FRAME_END THEN [some |-> TRUE, ppn |-> cur] ELSE [some |-> FALSE, ppn |-> 0]

\* the frame a physical page number names, -1 when it is none the model holds
FrameOf(ppn) == IF FitsNat(ppn) THEN ToNat(ppn) ELSE -1

\* ppn.get_pte_array()[idx]
\* (an entry no operation of the model writes is still zero)
PteAt(m, ppn, idx) ==
    IF ppn \in DOMAIN m THEN (IF idx \in DOMAIN m[ppn] THEN m[ppn][idx] ELSE WZero) ELSE WZero

(***************************************************************************)
(* PageTable                                                               *)
(***************************************************************************)
\* a find_pte_create that links the new table and does not keep its frame
CreateLink_FrameNotKept(s, idx, f, new) ==
    [mem    |-> [g \in DOMAIN s.mem \cup {f} |->
                   IF g = f THEN ZeroFrame
                   ELSE IF g = s.ppn THEN [s.mem[g] EXCEPT ![idx] = new]
                   ELSE s.mem[g]],
     frames |-> s.frames,
     cur    |-> s.cur + 1,
     ppn    |-> FrameOf(PageTableEntry_ppn(new)),
     oom    |-> FALSE]

\* find_pte_create, the entry of one level (i < 2) being invalid and
\* frame_alloc() having returned frame f: the zero-filled frame becomes the
\* next table, the entry new points to it, and the walk descends.
\* s is the walk: the memory, the owned frames, the allocator, the table
\* reached, and whether frame_alloc().unwrap() panicked.
CreateLink(s, idx, f, new) ==
    [mem    |-> [g \in DOMAIN s.mem \cup {f} |->
                   IF g = f THEN ZeroFrame
                   ELSE IF g = s.ppn THEN [s.mem[g] EXCEPT ![idx] = new]
                   ELSE s.mem[g]],
     frames |-> Append(s.frames, f),
     cur    |-> s.cur + 1,
     ppn    |-> FrameOf(PageTableEntry_ppn(new)),
     oom    |-> FALSE]

\* frame_alloc().unwrap()
CreateAlloc(s, idx, fr) ==
    IF ~fr.some THEN [s EXCEPT !.oom = TRUE]
    ELSE CreateLink(s, idx, fr.ppn, PageTableEntry_new(FromNat(fr.ppn), PTEFlags_V))

\* the entry pte of this level: allocate the next table if it is invalid,
\* then descend
CreateAt(s, idx, pte) ==
    IF ~PageTableEntry_is_valid(pte) THEN CreateAlloc(s, idx, frame_alloc(s.cur))
    ELSE [s EXCEPT !.ppn = FrameOf(PageTableEntry_ppn(pte))]

\* one level of find_pte_create's loop (i < 2)
CreateStep(s, idx) == IF s.oom THEN s ELSE CreateAt(s, idx, PteAt(s.mem, s.ppn, idx))

\* the last level (i == 2): the place <<table, index>> of the leaf entry
CreateLeaf(s, idx) ==
    [mem |-> s.mem, frames |-> s.frames, cur |-> s.cur, oom |-> s.oom, table |-> s.ppn, idx |-> idx]

\* find_pte_create: the walk over the two intermediate levels, and the place
\* of the leaf entry
find_pte_create(m, fr, cur, root, vpn) ==
    CreateLeaf(CreateStep(CreateStep([mem |-> m, frames |-> fr, cur |-> cur, ppn |-> root, oom |-> FALSE],
                                     indexes(vpn)[1]),
                          indexes(vpn)[2]),
               indexes(vpn)[3])

FindNone == [some |-> FALSE, table |-> 0, idx |-> 0]

\* find_pte at i = 1, and i = 2, which returns the place of the leaf entry
\* without looking at it
FindLevel1(idxs, p1) ==
    IF ~PageTableEntry_is_valid(p1) THEN FindNone
    ELSE [some |-> TRUE, table |-> FrameOf(PageTableEntry_ppn(p1)), idx |-> idxs[3]]

\* find_pte at i = 0
FindLevel0(m, idxs, p0) ==
    IF ~PageTableEntry_is_valid(p0) THEN FindNone
    ELSE FindLevel1(idxs, PteAt(m, FrameOf(PageTableEntry_ppn(p0)), idxs[2]))

\* find_pte: None at the first invalid intermediate entry, else the place of
\* the leaf entry
find_pte(m, root, vpn) == FindLevel0(m, indexes(vpn), PteAt(m, root, indexes(vpn)[1]))

\* .map(|pte| *pte)
Deref(m, r) ==
    IF r.some THEN [some |-> TRUE, pte |-> PteAt(m, r.table, r.idx)]
    ELSE [some |-> FALSE, pte |-> WZero]

\* translate: find_pte(vpn).map(|pte| *pte)
translate(m, root, vpn) == Deref(m, find_pte(m, root, vpn))

\* the rest of map() without its assert: it overwrites a valid leaf
map_entry_Overwrites(r, ppn, flags) ==
    IF r.oom THEN [mem |-> r.mem, frames |-> r.frames, cur |-> r.cur, panic |-> TRUE]
    ELSE [mem    |-> [r.mem EXCEPT ![r.table][r.idx] =
                         PageTableEntry_new(ppn, FlagsOr(flags, PTEFlags_V))],
          frames |-> r.frames, cur |-> r.cur, panic |-> FALSE]

\* map, after find_pte_create returned r: the unwrap, the assert that the
\* leaf is not valid, and the write
map_entry(r, ppn, flags) ==
    IF r.oom THEN [mem |-> r.mem, frames |-> r.frames, cur |-> r.cur, panic |-> TRUE]
    ELSE IF PageTableEntry_is_valid(PteAt(r.mem, r.table, r.idx))
    THEN [mem |-> r.mem, frames |-> r.frames, cur |-> r.cur, panic |-> TRUE]
    ELSE [mem    |-> [r.mem EXCEPT ![r.table][r.idx] =
                         PageTableEntry_new(ppn, FlagsOr(flags, PTEFlags_V))],
          frames |-> r.frames, cur |-> r.cur, panic |-> FALSE]

\* map: the page table after it, and whether it panicked (no frame left, or
\* the assert on an already valid leaf)
map(m, fr, cur, root, vpn, ppn, flags) == map_entry(find_pte_create(m, fr, cur, root, vpn), ppn, flags)

\* the rest of an unmap() that clears the root-level entry on the path
\* instead of the leaf
unmap_entry_ClearsIntermediate(m, root, vpn, r) ==
    IF ~r.some THEN [mem |-> m, panic |-> TRUE]
    ELSE IF ~PageTableEntry_is_valid(PteAt(m, r.table, r.idx)) THEN [mem |-> m, panic |-> TRUE]
    ELSE [mem |-> [m EXCEPT ![root][indexes(vpn)[1]] = PageTableEntry_empty], panic |-> FALSE]

\* unmap, after find_pte returned r: the unwrap, the assert that the leaf is
\* valid, and the clearing
unmap_entry(m, root, vpn, r) ==
    IF ~r.some THEN [mem |-> m, panic |-> TRUE]
    ELSE IF ~PageTableEntry_is_valid(PteAt(m, r.table, r.idx)) THEN [mem |-> m, panic |-> TRUE]
    ELSE [mem |-> [m EXCEPT ![r.table][r.idx] = PageTableEntry_empty], panic |-> FALSE]

\* unmap: the memory after it, and whether it panicked (unwrap of None, or
\* the assert on an invalid leaf)
unmap(m, root, vpn) == unmap_entry(m, root, vpn, find_pte(m, root, vpn))

\* token: 8usize << 60 | self.root_ppn.0
token(root) == BitOr(Shl(FromNat(8), 60), FromNat(root))

\* from_token: root_ppn = satp & ((1usize << 44) - 1), no owned frame
from_token(satp) == FrameOf(BitAnd(satp, LowMask(44)))

(***************************************************************************)
(* Layout constants (os/src/config.rs) and address types                   *)
(* (os/src/mm/address.rs)                                                  *)
(***************************************************************************)
PAGE_SIZE == 4096
PAGE_SIZE_BITS == 12
KERNEL_STACK_SIZE == 8192

\* usize::MAX - PAGE_SIZE + 1: the top page of the address space
TRAMPOLINE == WAdd(WSub(LowMask(USIZE_BITS), FromNat(PAGE_SIZE)).val, FromNat(1)).val

\* VirtAddr::from(usize): the low 39 bits
VirtAddr_from(v) == BitAnd(v, LowMask(39))

\* usize::from(VirtAddr): sign-extended from bit 38
usize_from_VirtAddr(va) ==
    IF BitAnd(va, Shl(FromNat(1), 38)) # WZero THEN BitOr(va, BitNot(LowMask(39))) ELSE va

\* VirtAddr::floor(): the page the address lies in
VirtAddr_floor(va) == Shr(va, PAGE_SIZE_BITS)

\* VirtAddr::page_offset()
VirtAddr_page_offset(va) == BitAnd(va, FromNat(PAGE_SIZE - 1))

\* VirtPageNum::step()
VirtPageNum_step(vpn) == WAdd(vpn, FromNat(1)).val

\* VirtAddr::from(VirtPageNum): the first address of the page
VirtAddr_from_vpn(vpn) == Shl(vpn, PAGE_SIZE_BITS)

(***************************************************************************)
(* translated_byte_buffer (os/src/mm/page_table.rs)                        *)
(***************************************************************************)
\* a view of the bytes lo..hi-1 of the physical page ppn
Slice(ppn, lo, hi) == [ppn |-> ppn, lo |-> lo, hi |-> hi]

\* the slice pushed with the end offset used even on a page boundary
page_slice_NoBoundaryCase(ppn, start_va, end_va) ==
    Slice(ppn, ToNat(VirtAddr_page_offset(start_va)), ToNat(VirtAddr_page_offset(end_va)))

\* the slice pushed for one page: from the start offset to the end of the
\* page when end_va is on a page boundary, to the end offset otherwise
page_slice(ppn, start_va, end_va) ==
    IF VirtAddr_page_offset(end_va) = WZero
    THEN Slice(ppn, ToNat(VirtAddr_page_offset(start_va)), PAGE_SIZE)
    ELSE Slice(ppn, ToNat(VirtAddr_page_offset(start_va)), ToNat(VirtAddr_page_offset(end_va)))

RECURSIVE translated_byte_buffer_loop(_, _, _, _, _)

\* the end of a pass: the slice sl, up to end_va, is pushed and start moves
\* to end_va; a slice whose start exceeds its end panics
BufPush(m, root, end, v, sl, end_va) ==
    IF sl.lo > sl.hi THEN [panic |-> TRUE, slices |-> v]
    ELSE translated_byte_buffer_loop(m, root, usize_from_VirtAddr(end_va), end, Append(v, sl))

\* translate(vpn).unwrap().ppn(), and the slice up to the end of the page or
\* of the buffer, the lower of the two
BufTranslated(m, root, end, v, start_va, t, end_va) ==
    IF ~t.some THEN [panic |-> TRUE, slices |-> v]
    ELSE BufPush(m, root, end, v, page_slice(PageTableEntry_ppn(t.pte), start_va, end_va), end_va)

\* the page vpn of start_va
BufPage(m, root, end, v, start_va, vpn) ==
    BufTranslated(m, root, end, v, start_va, translate(m, root, ToNat(vpn)),
                  WMin(VirtAddr_from_vpn(VirtPageNum_step(vpn)), VirtAddr_from(end)))

\* one pass of the loop
BufPass(m, root, end, v, start_va) == BufPage(m, root, end, v, start_va, VirtAddr_floor(start_va))

\* while start < end: one page per pass
translated_byte_buffer_loop(m, root, start, end, v) ==
    IF ~WLt(start, end) THEN [panic |-> FALSE, slices |-> v]
    ELSE BufPass(m, root, end, v, VirtAddr_from(start))

\* the loop from ptr to end = ptr + len, which panics on overflow in a
\* build with overflow checks and wraps otherwise
BufRange(m, root, ptr, end, checks) ==
    IF end.ovf /\ checks THEN [panic |-> TRUE, slices |-> << >>]
    ELSE translated_byte_buffer_loop(m, root, ptr, end.val, << >>)

translated_byte_buffer(m, satp, ptr, len, checks) ==
    BufRange(m, from_token(satp), ptr, WAdd(ptr, len), checks)

(***************************************************************************)
(* PidAllocator (os/src/task/pid.rs)                                       *)
(***************************************************************************)
Last(s) == s[Len(s)]
Front(s) == SubSeq(s, 1, Len(s) - 1)
Range(s) == {s[i] : i \in DOMAIN s}

\* alloc that returns the oldest recycled value
PidAllocator_alloc_Fifo(current, recycled) ==
    IF recycled # << >>
    THEN [pid |-> Head(recycled), current |-> current, recycled |-> Tail(recycled)]
    ELSE [pid |-> (current + 1) - 1, current |-> current + 1, recycled |-> recycled]

\* alloc that leaves the value it returns in the pool
PidAllocator_alloc_NoPop(current, recycled) ==
    IF recycled # << >>
    THEN [pid |-> Last(recycled), current |-> current, recycled |-> recycled]
    ELSE [pid |-> (current + 1) - 1, current |-> current + 1, recycled |-> recycled]

\* alloc that returns current after the increment
PidAllocator_alloc_OffByOne(current, recycled) ==
    IF recycled # << >>
    THEN [pid |-> Last(recycled), current |-> current, recycled |-> Front(recycled)]
    ELSE [pid |-> current + 1, current |-> current + 1, recycled |-> recycled]

\* alloc(): recycled.pop() when there is one, else current += 1 and current - 1
PidAllocator_alloc(current, recycled) ==
    IF recycled # << >>
    THEN [pid |-> Last(recycled), current |-> current, recycled |-> Front(recycled)]
    ELSE [pid |-> (current + 1) - 1, current |-> current + 1, recycled |-> recycled]

\* dealloc without the check that pid is not in the pool
PidAllocator_dealloc_NoDupCheck(current, recycled, pid) ==
    IF ~(pid < current) THEN [panic |-> TRUE, recycled |-> recycled]
    ELSE [panic |-> FALSE, recycled |-> Append(recycled, pid)]

\* dealloc(pid): the two asserts, then recycled.push(pid)
PidAllocator_dealloc(current, recycled, pid) ==
    IF ~(pid < current) THEN [panic |-> TRUE, recycled |-> recycled]
    ELSE IF \E i \in DOMAIN recycled : recycled[i] = pid THEN [panic |-> TRUE, recycled |-> recycled]
    ELSE [panic |-> FALSE, recycled |-> Append(recycled, pid)]

(***************************************************************************)
(* kernel_stack_position (os/src/task/pid.rs)                              *)
(***************************************************************************)
\* the result: the pair (bottom, top), whether the multiplication overflowed,
\* whether a subtraction underflowed, and whether the call panicked instead
\* of returning
KsResult(bottom, top, mul_overflow, sub_underflow, panic) ==
    [bottom |-> bottom, top |-> top, mul_overflow |-> mul_overflow,
     sub_underflow |-> sub_underflow, panic |-> panic]

\* bottom = top - KERNEL_STACK_SIZE, m being the multiplication and t the
\* subtraction that gave top
KsBottom(m, t, b, checks) ==
    IF (m.ovf \/ t.ovf \/ b.ovf) /\ checks THEN KsResult(WZero, WZero, m.ovf, t.ovf \/ b.ovf, TRUE)
    ELSE KsResult(b.val, t.val, m.ovf, t.ovf \/ b.ovf, FALSE)

\* let bottom = top - KERNEL_STACK_SIZE, t being the subtraction that gave top
KsTop(m, t, checks) == KsBottom(m, t, WSub(t.val, FromNat(KERNEL_STACK_SIZE)), checks)

\* let top = TRAMPOLINE - m, m being the multiplication
KsStride(m, checks) == KsTop(m, WSub(TRAMPOLINE, m.val), checks)

\* placement with no guard page between the stacks
kernel_stack_position_NoGuard(app_id, checks) ==
    KsStride(WMul(app_id, FromNat(KERNEL_STACK_SIZE)), checks)

\* top = TRAMPOLINE - app_id * (KERNEL_STACK_SIZE + PAGE_SIZE), bottom = top -
\* KERNEL_STACK_SIZE; each operation panics on overflow in a build with
\* overflow checks and wraps otherwise
kernel_stack_position(app_id, checks) ==
    KsStride(WMul(app_id, FromNat(KERNEL_STACK_SIZE + PAGE_SIZE)), checks)

(***************************************************************************)
(* KernelStack (os/src/task/pid.rs)                                        *)
(***************************************************************************)
\* the area [bottom, top) shares a page with one of areas
AreaMapped(areas, bottom, top) ==
    \E a \in areas : WLt(a.bottom, top) /\ WLt(bottom, a.top)

\* KERNEL_SPACE.insert_framed_area(bottom, top, R | W): every page of the
\* area is mapped, and map panics on a page that is mapped already
insert_framed_area(areas, bottom, top) ==
    IF AreaMapped(areas, bottom, top) THEN [areas |-> areas, panic |-> TRUE, mapped |-> TRUE]
    ELSE [areas |-> areas \cup {[bottom |-> bottom, top |-> top]}, panic |-> FALSE, mapped |-> FALSE]

\* KERNEL_SPACE.remove_area_with_start_vpn(start_vpn): the area that starts
\* at that page, if there is one, is unmapped and removed
remove_area_with_start_vpn(areas, start_vpn) ==
    {a \in areas : VirtAddr_floor(VirtAddr_from(a.bottom)) # start_vpn}

\* KernelStack::new, kernel_stack_position having returned pos
KernelStack_new_at(areas, pos) ==
    IF pos.panic THEN [areas |-> areas, panic |-> TRUE, mapped |-> FALSE]
    ELSE insert_framed_area(areas, pos.bottom, pos.top)

\* KernelStack::new(pid_handle): the area of the pid is inserted into
\* KERNEL_SPACE
KernelStack_new(areas, pid, checks) ==
    KernelStack_new_at(areas, kernel_stack_position(FromNat(pid), checks))

\* drop of a KernelStack, kernel_stack_position having returned pos
KernelStack_drop_at(areas, pos) ==
    IF pos.panic THEN [areas |-> areas, panic |-> TRUE]
    ELSE [areas |-> remove_area_with_start_vpn(areas, VirtAddr_floor(VirtAddr_from(pos.bottom))),
          panic |-> FALSE]

\* drop of the KernelStack of pid: its area is removed from KERNEL_SPACE
KernelStack_drop(areas, pid, checks) ==
    KernelStack_drop_at(areas, kernel_stack_position(FromNat(pid), checks))

(***************************************************************************)
(* Processor (os/src/task/processor.rs)                                    *)
(***************************************************************************)
\* Option::None of a task reference
NoTask == 0

\* take_current that leaves the task in place
Processor_take_current_Keeps(current) == [ret |-> current, current |-> current]

\* take_current(): self.current.take()
Processor_take_current(current) == [ret |-> current, current |-> NoTask]

\* current(): a clone of the reference
Processor_current(current) == current

\* The operations below act on k, the processor and the task control blocks:
\* k.current is Processor.current, k.borrowed whether PROCESSOR's guard is
\* held, k.inner the tasks whose inner guard is held, k.status the status of
\* every task, k.panic whether the kernel panicked.

\* PROCESSOR.exclusive_access(): the guard, a panic if it is held already
exclusive_access(k) ==
    IF k.panic THEN k
    ELSE IF k.borrowed THEN [k EXCEPT !.panic = TRUE]
    ELSE [k EXCEPT !.borrowed = TRUE]

\* the guard on PROCESSOR goes out of scope
drop_guard(k) == IF k.panic THEN k ELSE [k EXCEPT !.borrowed = FALSE]

\* task.inner_exclusive_access(): the guard, a panic if it is held already
inner_exclusive_access(k, task) ==
    IF k.panic THEN k
    ELSE IF task \in k.inner THEN [k EXCEPT !.panic = TRUE]
    ELSE [k EXCEPT !.inner = k.inner \cup {task}]

\* task_inner.task_status = status
set_task_status(k, task, status) ==
    IF k.panic THEN k ELSE [k EXCEPT !.status[task] = status]

\* drop(task_inner)
run_tasks_drop_task_inner(k, task) ==
    IF k.panic THEN k ELSE [k EXCEPT !.inner = k.inner \ {task}]

\* run_tasks: task_inner = task.inner_exclusive_access(); task_inner.task_status
\* = TaskStatus::Running; drop(task_inner)
run_tasks_mark_running(k, task) ==
    run_tasks_drop_task_inner(set_task_status(inner_exclusive_access(k, task), task, "Running"), task)

\* a run_tasks that installs the task only after the switch has returned
run_tasks_install_AfterSwitch(k, task) == k

\* run_tasks: processor.current = Some(task)
run_tasks_install(k, task) == IF k.panic THEN k ELSE [k EXCEPT !.current = task]

\* a run_tasks without its drop(processor): the guard lives to the end of
\* the iteration, across the switch
run_tasks_drop_processor_Held(k) == k

\* run_tasks: drop(processor)
run_tasks_drop_processor(k) == drop_guard(k)

\* run_tasks, an iteration in which fetch_task() returned task, from the
\* exclusive_access to the __switch
run_tasks_fetched(k, task) ==
    run_tasks_drop_processor(run_tasks_install(run_tasks_mark_running(exclusive_access(k), task), task))

\* a run_tasks that, finding no task, empties Processor.current
run_tasks_none_ClearsCurrent(k) == [drop_guard(exclusive_access(k)) EXCEPT !.current = NoTask]

\* run_tasks, an iteration in which fetch_task() returned None: processor
\* goes out of scope at the end of the iteration
run_tasks_none(k) == drop_guard(exclusive_access(k))

\* PROCESSOR.exclusive_access().take_current(), r being what take_current
\* returns and leaves; the temporary guard goes out of scope with the statement
TakeCurrent(k, r) ==
    [k |-> IF k.panic THEN k ELSE drop_guard([k EXCEPT !.current = r.current]),
     ret |-> IF k.panic THEN NoTask ELSE r.ret]

\* take_current_task()
take_current_task(k) == TakeCurrent(exclusive_access(k), Processor_take_current(k.current))

\* PROCESSOR.exclusive_access().current()
PeekCurrent(k) == [k |-> drop_guard(k), ret |-> IF k.panic THEN NoTask ELSE Processor_current(k.current)]

\* current_task()
current_task(k) == PeekCurrent(exclusive_access(k))

\* a schedule that empties Processor.current on the way out
schedule_before_switch_ClearsCurrent(k) ==
    [drop_guard(exclusive_access(k)) EXCEPT !.current = NoTask]

\* schedule, up to its __switch: processor = PROCESSOR.exclusive_access();
\* idle_task_cx_ptr = processor.get_idle_task_cx_ptr(); drop(processor)
schedule_before_switch(k) == drop_guard(exclusive_access(k))

\* TaskContext: the place execution resumes at when the context is switched to
TaskContext(ra) == [ra |-> ra]

\* TaskContext::zero_init()
TaskContext_zero_init == TaskContext("zero")

\* the context a task is created with: its first run
TaskContext_goto_trap_return == TaskContext("trap_return")

\* __switch(from, to), its first half: the place the caller stands at is
\* saved in the context from points to, and in no other
switch_save(cxs, from, ra) == [cxs EXCEPT ![from] = TaskContext(ra)]

\* __switch(from, to), its second half: execution resumes where the context
\* to points to was saved
switch_resume(cx) == cx.ra

(***************************************************************************)
(* TaskControlBlock timing (os/src/task/task.rs)                           *)
(***************************************************************************)
\* the new mark, the value returned, and whether the subtraction underflowed
\* or panicked
KernelTimeResult(mark, d, checks) ==
    [kernel_time |-> mark, ret |-> d.val, underflow |-> d.ovf, panic |-> d.ovf /\ checks]

\* update_kernel_time that returns the delta and keeps the old mark
update_kernel_time_NoRebase(last_time, now, checks) ==
    KernelTimeResult(last_time, WSub(FromNat(now), FromNat(last_time)), checks)

\* update_kernel_time: last_time = self.kernel_time; self.kernel_time =
\* get_time(); self.kernel_time - last_time
update_kernel_time(last_time, now, checks) ==
    KernelTimeResult(now, WSub(FromNat(now), FromNat(last_time)), checks)

(***************************************************************************)
(* Page table actions                                                      *)
(***************************************************************************)
LastOp(op, vpn, ppn, flags, outcome, pte) ==
    [op |-> op, vpn |-> vpn, ppn |-> ppn, flags |-> flags, outcome |-> outcome, pte |-> pte]

BbNone == [called |-> FALSE, start |-> 0, len |-> 0, panic |-> FALSE, slices |-> << >>]

\* PageTable::new(): the root frame is allocated and owned
PageTable_new ==
    /\ mem = [f \in {FRAME_BASE} |-> ZeroFrame]
    /\ root_ppn = FRAME_BASE
    /\ frames = <<FRAME_BASE>>
    /\ fa_current = FRAME_BASE + 1
    /\ pt_mapped = << >>
    /\ pt_last = LastOp("new", 0, WZero, 0, "ok", WZero)
    /\ bb_last = BbNone

\* the page table and the history after map returned r
MapDone(r, vpn, ppn, flags) ==
    /\ mem' = r.mem
    /\ frames' = r.frames
    /\ fa_current' = r.cur
    /\ panicked' = r.panic
    /\ pt_mapped' = IF r.panic THEN pt_mapped
                   ELSE [v \in DOMAIN pt_mapped \cup {vpn} |->
                           IF v = vpn THEN [ppn |-> ppn, flags |-> flags] ELSE pt_mapped[v]]
    /\ pt_last' = LastOp("map", vpn, ppn, flags, IF r.panic THEN "panic" ELSE "ok", WZero)

Map(vpn, ppn, flags) ==
    /\ ~panicked
    /\ MapDone(map(mem, frames, fa_current, root_ppn, vpn, ppn, flags), vpn, ppn, flags)
    /\ bb_last' = BbNone
    /\ UNCHANGED <<root_ppn, pid_vars, ks_vars, proc_vars>>

\* the page table and the history after unmap returned r
UnmapDone(r, vpn) ==
    /\ mem' = r.mem
    /\ panicked' = r.panic
    /\ pt_mapped' = IF r.panic THEN pt_mapped
                   ELSE [v \in DOMAIN pt_mapped \ {vpn} |-> pt_mapped[v]]
    /\ pt_last' = LastOp("unmap", vpn, WZero, 0, IF r.panic THEN "panic" ELSE "ok", WZero)

Unmap(vpn) ==
    /\ ~panicked
    /\ UnmapDone(unmap(mem, root_ppn, vpn), vpn)
    /\ bb_last' = BbNone
    /\ UNCHANGED <<root_ppn, frames, fa_current, pid_vars, ks_vars, proc_vars>>

\* the history after translate returned r
TranslateDone(r, vpn) ==
    pt_last' = LastOp("translate", vpn, WZero, 0, IF r.some THEN "some" ELSE "none", r.pte)

Translate(vpn) ==
    /\ ~panicked
    /\ TranslateDone(translate(mem, root_ppn, vpn), vpn)
    /\ bb_last' = BbNone
    /\ UNCHANGED <<panicked, mem, root_ppn, frames, fa_current, pt_mapped, pid_vars, ks_vars, proc_vars>>

(***************************************************************************)
(* translated_byte_buffer as an operation on the page table                *)
(***************************************************************************)
\* the history after translated_byte_buffer returned r
TranslatedByteBufferDone(r, start, len) ==
    /\ bb_last' = [called |-> TRUE, start |-> start, len |-> len, panic |-> r.panic, slices |-> r.slices]
    /\ pt_last' = LastOp("translated_byte_buffer", 0, WZero, 0, IF r.panic THEN "panic" ELSE "ok", WZero)
    /\ panicked' = r.panic

TranslatedByteBuffer(start, len) ==
    /\ ~panicked
    /\ TranslatedByteBufferDone(
           translated_byte_buffer(mem, token(root_ppn), FromNat(start), FromNat(len), overflow_checks),
           start, len)
    /\ UNCHANGED <<mem, root_ppn, frames, fa_current, pt_mapped, pid_vars, ks_vars, proc_vars>>

(***************************************************************************)
(* PID allocator actions                                                   *)
(***************************************************************************)
MaxPid == 4
MaxPidOps == 7

PidOp(op, pid, outcome) == [op |-> op, pid |-> pid, outcome |-> outcome]

\* PidAllocator::new(); no handle exists yet
PidAllocator_new ==
    /\ pid_current = 0
    /\ pid_recycled = << >>
    /\ pid_live = [p \in 0..(MaxPid - 1) |-> 0]
    /\ pid_log = << >>

\* pid_alloc(): the caller owns the handle returned
PidAlloc ==
    /\ ~panicked
    /\ Len(pid_log) < MaxPidOps
    /\ pid_recycled # << >> \/ pid_current < MaxPid
    /\ LET r == PidAllocator_alloc(pid_current, pid_recycled)
       IN  /\ pid_current' = r.current
           /\ pid_recycled' = r.recycled
           /\ pid_live' = [pid_live EXCEPT ![r.pid] = @ + 1]
           /\ pid_log' = Append(pid_log, PidOp("alloc", r.pid, "ok"))
    /\ UNCHANGED <<panicked, pt_vars, ks_vars, proc_vars>>

\* a live PidHandle(pid) is dropped: dealloc(self.0)
DropHandle(pid) ==
    /\ ~panicked
    /\ Len(pid_log) < MaxPidOps
    /\ pid_live[pid] > 0
    /\ LET r == PidAllocator_dealloc(pid_current, pid_recycled, pid)
       IN  /\ pid_recycled' = r.recycled
           /\ panicked' = r.panic
           /\ pid_log' = Append(pid_log, PidOp("drop", pid, IF r.panic THEN "panic" ELSE "ok"))
    /\ pid_live' = [pid_live EXCEPT ![pid] = @ - 1]
    /\ UNCHANGED <<pid_current, pt_vars, ks_vars, proc_vars>>

\* PID_ALLOCATOR.exclusive_access().dealloc(pid) called with any value, no
\* handle involved
Dealloc(pid) ==
    /\ ~panicked
    /\ Len(pid_log) < MaxPidOps
    /\ LET r == PidAllocator_dealloc(pid_current, pid_recycled, pid)
       IN  /\ pid_recycled' = r.recycled
           /\ panicked' = r.panic
           /\ pid_log' = Append(pid_log, PidOp("dealloc", pid, IF r.panic THEN "panic" ELSE "ok"))
    /\ UNCHANGED <<pid_current, pid_live, pt_vars, ks_vars, proc_vars>>

(***************************************************************************)
(* Kernel stack placement                                                  *)
(***************************************************************************)
MaxKsPid == 3

\* the largest PID whose stack lies above address 0:
\* (TRAMPOLINE - KERNEL_STACK_SIZE) / (KERNEL_STACK_SIZE + PAGE_SIZE) = 0x5555555555554
KS_LAST_PID == <<21844, 21845, 21845, 5>>

KsPids ==
    {FromNat(k) : k \in 0..MaxKsPid}
        \cup {FromNat(65535), FromNat(65536), Shl(FromNat(1), 40),
              WSub(KS_LAST_PID, FromNat(1)).val, KS_LAST_PID,
              WAdd(KS_LAST_PID, FromNat(1)).val, WAdd(KS_LAST_PID, FromNat(2)).val,
              Shl(FromNat(1), 52), WAdd(Shl(FromNat(1), 52), FromNat(1)).val, LowMask(USIZE_BITS)}

KsNone == [done |-> FALSE,
           p |-> KsResult(WZero, WZero, FALSE, FALSE, FALSE),
           q |-> KsResult(WZero, WZero, FALSE, FALSE, FALSE)]

KsOp(op, pid, outcome) == [op |-> op, pid |-> pid, outcome |-> outcome]

\* no KernelStack exists yet and KERNEL_SPACE holds no kernel stack area
KernelStacks_new ==
    /\ kstacks = {}
    /\ kernel_space = {}
    /\ ks_last = KsOp("new", 0, "ok")

\* no placement is being computed
KsIdle ==
    /\ overflow_checks = FALSE
    /\ ks_p = WZero
    /\ ks_q = WZero
    /\ ks_out = KsNone
    /\ KernelStacks_new

\* the results rp and rq are recorded; a panic of either halts the kernel
KernelStackPositionDone(rp, rq) ==
    /\ ks_out' = [done |-> TRUE, p |-> rp, q |-> rq]
    /\ panicked' = (rp.panic \/ rq.panic)

\* kernel_stack_position of the two PIDs
KernelStackPosition ==
    /\ ~panicked
    /\ ~ks_out.done
    /\ KernelStackPositionDone(kernel_stack_position(ks_p, overflow_checks),
                               kernel_stack_position(ks_q, overflow_checks))
    /\ UNCHANGED <<overflow_checks, ks_p, ks_q, kstacks, kernel_space, ks_last, pt_vars, pid_vars, proc_vars>>

\* which of the handles that held pid the live one is: the allocs that
\* returned pid so far
HandleOf(pid) == Cardinality({i \in DOMAIN pid_log : pid_log[i].op = "alloc" /\ pid_log[i].pid = pid})

KernelStackNewDone(pid, r) ==
    /\ kernel_space' = r.areas
    /\ kstacks' = IF r.panic THEN kstacks ELSE kstacks \cup {[pid |-> pid, handle |-> HandleOf(pid)]}
    /\ panicked' = r.panic
    /\ ks_last' = KsOp("new", pid, IF r.mapped THEN "mapped" ELSE IF r.panic THEN "panic" ELSE "ok")

\* KernelStack::new(&handle) for a live handle of pid that has no kernel
\* stack yet: a process is given one
KernelStackNew(pid) ==
    /\ ~panicked
    /\ pid_live[pid] > 0
    /\ [pid |-> pid, handle |-> HandleOf(pid)] \notin kstacks
    /\ KernelStackNewDone(pid, KernelStack_new(kernel_space, pid, overflow_checks))
    /\ UNCHANGED <<overflow_checks, ks_p, ks_q, ks_out, pt_vars, pid_vars, proc_vars>>

KernelStackDropDone(ks, r) ==
    /\ kernel_space' = r.areas
    /\ kstacks' = kstacks \ {ks}
    /\ panicked' = r.panic
    /\ ks_last' = KsOp("drop", ks.pid, IF r.panic THEN "panic" ELSE "ok")

\* a live KernelStack is dropped, its handle alive or not
KernelStackDrop(ks) ==
    /\ ~panicked
    /\ ks \in kstacks
    /\ KernelStackDropDone(ks, KernelStack_drop(kernel_space, ks.pid, overflow_checks))
    /\ UNCHANGED <<overflow_checks, ks_p, ks_q, ks_out, pt_vars, pid_vars, proc_vars>>

(***************************************************************************)
(* Processor actions                                                       *)
(***************************************************************************)
NumTasks == 2
Tasks == 1..NumTasks

\* the context slots __switch is pointed at: task_cx of every task, the
\* context an exiting task hands to schedule instead of its own, and
\* Processor.idle_task_cx
UnusedCx == 0
IdleCx == NumTasks + 1
CxSlots == Tasks \cup {UnusedCx}

ProcOp(op, task, ret) == [op |-> op, task |-> task, ret |-> ret]

\* the clock at 0 and no task timed yet
TaskTime_new ==
    /\ time = 0
    /\ user_time = [t \in Tasks |-> 0]
    /\ kernel_time = [t \in Tasks |-> 0]
    /\ kt_log = << >>

\* Processor::new(), every task ready and queued, the idle flow about to
\* enter the loop of run_tasks
Processor_new ==
    /\ proc_current = NoTask
    /\ flow = NoTask
    /\ idle_pc = "loop"
    /\ ready_queue = Tasks
    /\ task_status = [t \in Tasks |-> "Ready"]
    /\ proc_last = ProcOp("new", NoTask, NoTask)
    /\ processor_borrowed = FALSE
    /\ inner_borrowed = {}
    /\ next_task_cx_ptr = NoTask
    /\ task_cx = [s \in CxSlots |-> IF s = UnusedCx THEN TaskContext_zero_init
                                    ELSE TaskContext_goto_trap_return]
    /\ idle_task_cx = TaskContext_zero_init
    /\ TaskTime_new

\* the processor and the task control blocks, as the operations take them
ProcState ==
    [current |-> proc_current, borrowed |-> processor_borrowed, inner |-> inner_borrowed,
     status |-> task_status, panic |-> FALSE]

\* ... and as they leave them
ProcAssign(k) ==
    /\ proc_current' = k.current
    /\ processor_borrowed' = k.borrowed
    /\ inner_borrowed' = k.inner
    /\ task_status' = k.status
    /\ panicked' = k.panic

\* every context, by slot
Contexts == [s \in CxSlots \cup {IdleCx} |-> IF s = IdleCx THEN idle_task_cx ELSE task_cx[s]]

ContextsAssign(cxs) ==
    /\ task_cx' = [s \in CxSlots |-> cxs[s]]
    /\ idle_task_cx' = cxs[IdleCx]

\* the ready queue is given a task it does not hold
AddTask(t) ==
    /\ ~panicked
    /\ t \notin ready_queue
    /\ ready_queue' = ready_queue \cup {t}
    /\ UNCHANGED <<panicked, proc_current, flow, idle_pc, task_status, proc_last,
                   next_task_cx_ptr, guard_vars, cx_vars, time_vars, pt_vars, pid_vars, ks_vars>>

\* run_tasks, an iteration in which fetch_task() returns None
RunTasksPoll ==
    /\ ~panicked
    /\ flow = NoTask /\ idle_pc = "loop"
    /\ ready_queue = {}
    /\ ProcAssign(run_tasks_none(ProcState))
    /\ proc_last' = ProcOp("poll", NoTask, NoTask)
    /\ UNCHANGED <<flow, idle_pc, ready_queue, next_task_cx_ptr, cx_vars, time_vars,
                   pt_vars, pid_vars, ks_vars>>

RunTasksDispatchDone(task, k) ==
    /\ ProcAssign(k)
    /\ ready_queue' = ready_queue \ {task}
    /\ next_task_cx_ptr' = task
    /\ idle_pc' = IF k.panic THEN idle_pc ELSE "switch"
    /\ proc_last' = ProcOp("dispatch", task, NoTask)
    /\ UNCHANGED <<flow, cx_vars, time_vars, pt_vars, pid_vars, ks_vars>>

\* run_tasks, an iteration in which fetch_task() returns a task (any the
\* queue holds: its policy is its own), up to the __switch: the task is
\* marked Running and installed as current
RunTasksDispatch ==
    /\ ~panicked
    /\ flow = NoTask /\ idle_pc = "loop"
    /\ \E task \in ready_queue : RunTasksDispatchDone(task, run_tasks_fetched(ProcState, task))

\* run_tasks, __switch(idle_task_cx_ptr, next_task_cx_ptr): the idle flow
\* rests in the switch, the place after it saved in idle_task_cx, and the
\* flow of the task executes
RunTasksSwitch ==
    /\ ~panicked
    /\ flow = NoTask /\ idle_pc = "switch"
    /\ ContextsAssign(switch_save(Contexts, IdleCx, "after_switch"))
    /\ flow' = next_task_cx_ptr
    /\ idle_pc' = "switched"
    /\ proc_last' = ProcOp("switch", next_task_cx_ptr, NoTask)
    /\ UNCHANGED <<panicked, proc_current, ready_queue, task_status, next_task_cx_ptr,
                   guard_vars, time_vars, pt_vars, pid_vars, ks_vars>>

\* run_tasks, the __switch has returned: the end of the iteration, and the
\* loop goes round
RunTasksNext ==
    /\ ~panicked
    /\ flow = NoTask /\ idle_pc = "after_switch"
    /\ idle_pc' = "loop"
    /\ UNCHANGED <<panicked, proc_current, flow, ready_queue, task_status, proc_last,
                   next_task_cx_ptr, guard_vars, cx_vars, time_vars, pt_vars, pid_vars, ks_vars>>

TakeCurrentTaskDone(r) ==
    /\ ProcAssign(r.k)
    /\ proc_last' = ProcOp("take_current_task", flow, r.ret)
    /\ UNCHANGED <<flow, idle_pc, ready_queue, next_task_cx_ptr, cx_vars, time_vars,
                   pt_vars, pid_vars, ks_vars>>

\* take_current_task(), called by the executing task
TakeCurrentTask ==
    /\ ~panicked
    /\ flow # NoTask
    /\ TakeCurrentTaskDone(take_current_task(ProcState))

CurrentTaskDone(r) ==
    /\ ProcAssign(r.k)
    /\ proc_last' = ProcOp("current_task", flow, r.ret)
    /\ UNCHANGED <<flow, idle_pc, ready_queue, next_task_cx_ptr, cx_vars, time_vars,
                   pt_vars, pid_vars, ks_vars>>

\* current_task(), called by the executing task
CurrentTask ==
    /\ ~panicked
    /\ flow # NoTask
    /\ CurrentTaskDone(current_task(ProcState))

\* the executing task exits: its status becomes Exited
MarkExited ==
    /\ ~panicked
    /\ flow # NoTask
    /\ task_status[flow] # "Exited"
    /\ ProcAssign(run_tasks_drop_task_inner(
                      set_task_status(inner_exclusive_access(ProcState, flow), flow, "Exited"),
                      flow))
    /\ proc_last' = ProcOp("exit", flow, NoTask)
    /\ UNCHANGED <<flow, idle_pc, ready_queue, next_task_cx_ptr, cx_vars, time_vars,
                   pt_vars, pid_vars, ks_vars>>

ScheduleDone(cx_ptr, k) ==
    /\ ProcAssign(k)
    /\ ContextsAssign(IF k.panic THEN Contexts ELSE switch_save(Contexts, cx_ptr, "schedule"))
    /\ flow' = IF k.panic THEN flow ELSE NoTask
    /\ idle_pc' = IF k.panic THEN idle_pc ELSE switch_resume(idle_task_cx)
    /\ proc_last' = ProcOp("schedule", flow, cx_ptr)
    /\ UNCHANGED <<ready_queue, next_task_cx_ptr, time_vars, pt_vars, pid_vars, ks_vars>>

\* schedule(switched_task_cx_ptr), called by the executing task with a
\* pointer to its own task_cx or to a context it will not use again:
\* __switch(switched_task_cx_ptr, idle_task_cx_ptr); the idle flow resumes
\* where idle_task_cx was saved
Schedule(cx_ptr) ==
    /\ ~panicked
    /\ flow # NoTask
    /\ cx_ptr \in {flow, UnusedCx}
    /\ ScheduleDone(cx_ptr, schedule_before_switch(ProcState))

(***************************************************************************)
(* Task timing actions                                                     *)
(***************************************************************************)
MaxTime == 3
MaxKtCalls == 4

\* the clock advances
Tick ==
    /\ ~panicked
    /\ time < MaxTime
    /\ time' = time + 1
    /\ UNCHANGED <<panicked, user_time, kernel_time, kt_log, proc_current, flow, idle_pc,
                   ready_queue, task_status, proc_last, next_task_cx_ptr, guard_vars, cx_vars,
                   pt_vars, pid_vars, ks_vars>>

UpdateKernelTimeDone(t, r) ==
    /\ kernel_time' = [kernel_time EXCEPT ![t] = r.kernel_time]
    /\ kt_log' = Append(kt_log, [task |-> t, time |-> time, ret |-> r.ret, underflow |-> r.underflow])
    /\ panicked' = r.panic

\* update_kernel_time() on the control block of task t
UpdateKernelTime(t) ==
    /\ ~panicked
    /\ Len(kt_log) < MaxKtCalls
    /\ UpdateKernelTimeDone(t, update_kernel_time(kernel_time[t], time, overflow_checks))
    /\ UNCHANGED <<time, user_time, proc_current, flow, idle_pc,
                   ready_queue, task_status, proc_last, next_task_cx_ptr, guard_vars, cx_vars,
                   pt_vars, pid_vars, ks_vars>>

(***************************************************************************)
(* Specifications                                                          *)
(***************************************************************************)
\* the kernel after construction of its singletons
Init ==
    /\ panicked = FALSE
    /\ PageTable_new
    /\ PidAllocator_new
    /\ KsIdle
    /\ Processor_new

\* the page table under map, unmap and translate
NextPageTable ==
    \/ \E vpn \in VPNs, ppn \in PPNs, flags \in FlagSets : Map(vpn, ppn, flags)
    \/ \E vpn \in VPNs : Unmap(vpn)
    \/ \E vpn \in VPNs : Translate(vpn)

SpecPageTable == Init /\ [][NextPageTable]_vars

\* user buffers: byte ranges starting and ending on, before and after page
\* boundaries
BufStarts == {0, 1, PAGE_SIZE - 1, PAGE_SIZE, PAGE_SIZE + 1}
BufLens == {0, 1, PAGE_SIZE - 1, PAGE_SIZE, PAGE_SIZE + 1, 2 * PAGE_SIZE}

\* an address space whose pages are mapped and unmapped, read through
\* translated_byte_buffer
NextByteBuffer ==
    \/ \E vpn \in BufVPNs, ppn \in PPNs : Map(vpn, ppn, PTEFlags_R + PTEFlags_W + PTEFlags_U)
    \/ \E vpn \in BufVPNs : Unmap(vpn)
    \/ \E start \in BufStarts, len \in BufLens : TranslatedByteBuffer(start, len)

SpecByteBuffer == Init /\ [][NextByteBuffer]_vars

\* PIDs allocated and released through their handles only
NextPid ==
    \/ PidAlloc
    \/ \E pid \in 0..(MaxPid - 1) : DropHandle(pid)

SpecPid == Init /\ [][NextPid]_vars

\* the same, with dealloc also called directly on any value
NextPidRaw ==
    \/ PidAlloc
    \/ \E pid \in 0..(MaxPid - 1) : DropHandle(pid)
    \/ \E pid \in 0..MaxPid : Dealloc(pid)

SpecPidRaw == Init /\ [][NextPidRaw]_vars

\* kernel_stack_position as a function: any two PIDs, either build
InitKernelStack ==
    /\ panicked = FALSE
    /\ PageTable_new
    /\ PidAllocator_new
    /\ Processor_new
    /\ overflow_checks \in BOOLEAN
    /\ ks_p \in KsPids
    /\ ks_q \in KsPids
    /\ ks_out = KsNone
    /\ KernelStacks_new

NextKernelStack == KernelStackPosition

SpecKernelStack == InitKernelStack /\ [][NextKernelStack]_vars

\* the core: the idle flow in run_tasks, the tasks calling into the processor
NextProcessor ==
    \/ \E t \in Tasks : AddTask(t)
    \/ RunTasksPoll
    \/ RunTasksDispatch
    \/ RunTasksSwitch
    \/ RunTasksNext
    \/ TakeCurrentTask
    \/ CurrentTask
    \/ MarkExited
    \/ \E cx_ptr \in CxSlots : Schedule(cx_ptr)

SpecProcessor == Init /\ [][NextProcessor]_vars

\* the idle flow is code the core executes: while it is the flow on the core
\* it goes on
FairProcessor ==
    /\ WF_vars(RunTasksPoll)
    /\ WF_vars(RunTasksDispatch)
    /\ WF_vars(RunTasksSwitch)
    /\ WF_vars(RunTasksNext)

SpecProcessorFair == SpecProcessor /\ FairProcessor


\* the timing of the task control blocks under a clock that never goes back
NextTaskTime ==
    \/ Tick
    \/ \E t \in Tasks : UpdateKernelTime(t)

SpecTaskTime == Init /\ [][NextTaskTime]_vars

\* PID handles and kernel stacks created and released in any order
NextKernelStacks ==
    \/ PidAlloc
    \/ \E pid \in 0..(MaxPid - 1) : DropHandle(pid)
    \/ \E pid \in 0..(MaxPid - 1) : KernelStackNew(pid)
    \/ \E ks \in kstacks : KernelStackDrop(ks)

SpecKernelStacks == Init /\ [][NextKernelStacks]_vars
(***************************************************************************)
(* Page table properties                                                   *)
(***************************************************************************)
\* the three entries on vpn's path, read level by level, are all valid
WalkValid(m, root, vpn) ==
    LET idxs == indexes(vpn)
        p0   == PteAt(m, root, idxs[1])
        p1   == PteAt(m, FrameOf(PageTableEntry_ppn(p0)), idxs[2])
        p2   == PteAt(m, FrameOf(PageTableEntry_ppn(p1)), idxs[3])
    IN  /\ PageTableEntry_is_valid(p0)
        /\ PageTableEntry_is_valid(p1)
        /\ PageTableEntry_is_valid(p2)

\* the tables the valid entries of the tables in T point to
Children(m, T) ==
    {FrameOf(PageTableEntry_ppn(m[t][i])) : <<t, i>> \in {x \in T \X Idxs : PageTableEntry_is_valid(m[x[1]][x[2]])}}

\* the root, the middle tables and the leaf tables reached through valid entries
ReachableTables(m, root) ==
    LET l1 == Children(m, {root})
        l2 == Children(m, l1)
    IN  {root} \cup l1 \cup l2

\* C1 as stated: after a successful map(vpn, ppn, flags), translate(vpn)
\* returns an entry whose ppn() is the supplied ppn and whose flags() are
\* exactly the supplied flags.
C1_MapTranslateExactFlags ==
    (pt_last.op = "map" /\ pt_last.outcome = "ok") =>
        LET t == translate(mem, root_ppn, pt_last.vpn)
        IN  /\ t.some
            /\ PageTableEntry_ppn(t.pte) = pt_last.ppn
            /\ PageTableEntry_flags(t.pte) = pt_last.flags

\* C1 amended: after a successful map(vpn, ppn, flags), translate(vpn)
\* returns an entry whose ppn() is the supplied ppn (any ppn of up to 44
\* bits) and whose flags() are the supplied flags with the valid bit V set;
\* and it goes on doing so, whatever other vpns are mapped or unmapped,
\* until vpn itself is unmapped.
C1_MapTranslateFlagsWithV ==
    /\ (pt_last.op = "map" /\ pt_last.outcome = "ok") =>
           /\ pt_last.vpn \in DOMAIN pt_mapped
           /\ pt_mapped[pt_last.vpn] = [ppn |-> pt_last.ppn, flags |-> pt_last.flags]
    /\ \A v \in DOMAIN pt_mapped :
           LET t == translate(mem, root_ppn, v)
           IN  /\ t.some
               /\ PageTableEntry_ppn(t.pte) = pt_mapped[v].ppn
               /\ PageTableEntry_flags(t.pte) = FlagsOr(pt_mapped[v].flags, PTEFlags_V)

\* a map of the largest 44-bit ppn with flags R|W|U (no V) succeeded beside
\* another mapping
C1_Witness ==
    /\ pt_last.op = "map" /\ pt_last.outcome = "ok"
    /\ pt_last.ppn = LowMask(44)
    /\ pt_last.flags = PTEFlags_R + PTEFlags_W + PTEFlags_U
    /\ Cardinality(DOMAIN pt_mapped) >= 2

\* C2 as stated: translate(vpn) returns an entry if and only if every level
\* of the walk down to and including the leaf is valid; for a vpn that is
\* not mapped it returns None, never a zero-filled entry.
C2_TranslateSomeIffMapped ==
    pt_last.op = "translate" =>
        /\ pt_last.outcome = "some" <=> WalkValid(mem, root_ppn, pt_last.vpn)
        /\ pt_last.vpn \notin DOMAIN pt_mapped => pt_last.outcome = "none"

\* C3: a map() of a vpn whose leaf is valid panics and leaves the tables as
\* they were; an unmap() of a vpn that is not mapped (an invalid entry at any
\* level of its path) panics.
C3_MisuseIsFatal ==
    [][/\ (pt_last'.op = "map" /\ WalkValid(mem, root_ppn, pt_last'.vpn)) =>
              /\ panicked' /\ pt_last'.outcome = "panic"
              /\ mem' = mem /\ frames' = frames
       /\ (pt_last'.op = "unmap" /\ ~WalkValid(mem, root_ppn, pt_last'.vpn)) =>
              /\ panicked' /\ pt_last'.outcome = "panic"
              /\ mem' = mem]_vars

\* a map() of a mapped vpn ended in the panic
C3_Witness ==
    /\ panicked
    /\ pt_last.op = "map" /\ pt_last.outcome = "panic"
    /\ pt_last.vpn \in DOMAIN pt_mapped

\* C4: every table frame is reached from the root through valid intermediate
\* entries, and every entry on the path to a mapped leaf is valid.
C4_ValidLeafReachable ==
    /\ \A f \in DOMAIN mem : f \in ReachableTables(mem, root_ppn)
    /\ \A v \in DOMAIN pt_mapped : WalkValid(mem, root_ppn, v)

\* an unmap succeeded while another vpn sharing its leaf table stays mapped
C4_Witness ==
    /\ pt_last.op = "unmap" /\ pt_last.outcome = "ok"
    /\ pt_last.vpn = 0 /\ 1 \in DOMAIN pt_mapped
    /\ Len(frames) >= 4


\* the valid entries of the root and of the middle tables: <<table, index>>
IntermediateEntries(m, root) ==
    {x \in ({root} \cup Children(m, {root})) \X Idxs : PageTableEntry_is_valid(m[x[1]][x[2]])}

\* the intermediate entries on vpn's path that are invalid: both when the
\* root's is, for there is no middle table yet
InvalidOnPathBelow(m, idxs, p0) ==
    IF ~PageTableEntry_is_valid(p0) THEN 2
    ELSE IF ~PageTableEntry_is_valid(PteAt(m, FrameOf(PageTableEntry_ppn(p0)), idxs[2])) THEN 1
    ELSE 0

InvalidOnPath(m, root, vpn) == InvalidOnPathBelow(m, indexes(vpn), PteAt(m, root, indexes(vpn)[1]))

\* the frames owned are the root and one frame of its own for every valid
\* intermediate entry, which has no flag but V
FramesAccounted(m, root, fr) ==
    /\ fr[1] = root
    /\ \A i, j \in DOMAIN fr : i # j => fr[i] # fr[j]
    /\ Len(fr) = 1 + Cardinality(IntermediateEntries(m, root))
    /\ Range(fr) = {root} \cup {FrameOf(PageTableEntry_ppn(m[x[1]][x[2]])) : x \in IntermediateEntries(m, root)}
    /\ \A x \in IntermediateEntries(m, root) : PageTableEntry_flags(m[x[1]][x[2]]) = PTEFlags_V

\* C16: in every state reached from new() by map, unmap and translate, the
\* frames the table owns are the root frame and exactly one distinct frame
\* per valid intermediate entry; a map allocates exactly as many frames as
\* there were invalid intermediate entries on vpn's path (0, 1 or 2) unless
\* the allocator runs out, which is fatal, and sets each new intermediate
\* entry to valid with no other flag; unmap and translate neither allocate
\* nor release a frame.
C16_FramesAccounted ==
    /\ [](FramesAccounted(mem, root_ppn, frames))
    /\ [][pt_last'.op = "map" =>
              /\ SubSeq(frames', 1, Len(frames)) = frames
              /\ Len(frames') - Len(frames) = fa_current' - fa_current
              /\ IF FRAME_END - fa_current >= InvalidOnPath(mem, root_ppn, pt_last'.vpn)
                 THEN Len(frames') - Len(frames) = InvalidOnPath(mem, root_ppn, pt_last'.vpn)
                 ELSE panicked' /\ fa_current' = FRAME_END]_vars
    /\ [][pt_last'.op \in {"unmap", "translate"} =>
              (frames' = frames /\ fa_current' = fa_current)]_vars

\* a map that found the root entry of its path valid and the middle one
\* invalid has allocated one frame, after a map that allocated two
C16_Witness ==
    /\ pt_last.op = "map" /\ pt_last.outcome = "ok"
    /\ pt_last.vpn = 512
    /\ 0 \in DOMAIN pt_mapped
    /\ Len(frames) = 4
(***************************************************************************)
(* translated_byte_buffer properties                                       *)
(***************************************************************************)
\* the pages the bytes start .. start + len - 1 of the last call lie in
BbFirstPage == bb_last.start \div PAGE_SIZE
BbLastPage == (bb_last.start + bb_last.len - 1) \div PAGE_SIZE
BbPages == IF bb_last.len = 0 THEN {} ELSE BbFirstPage..BbLastPage

\* the page boundaries the range crosses
BbCrossings == IF bb_last.len = 0 THEN 0 ELSE BbLastPage - BbFirstPage

RECURSIVE SumLengths(_)
SumLengths(v) == IF v = << >> THEN 0 ELSE (Head(v).hi - Head(v).lo) + SumLengths(Tail(v))

\* slice i is a non-empty part of the physical page mapped for the i-th
\* virtual page of the range, from the offset of start in the first page
\* (0 in the later ones) to the offset after the last byte in the last page
\* (the page's end in the earlier ones)
BbSlicesInPlace ==
    \A i \in 1..Len(bb_last.slices) :
        LET s == bb_last.slices[i]
        IN  /\ s.ppn = pt_mapped[BbFirstPage + i - 1].ppn
            /\ s.lo = (IF i = 1 THEN bb_last.start % PAGE_SIZE ELSE 0)
            /\ s.hi = (IF i = Len(bb_last.slices)
                       THEN ((bb_last.start + bb_last.len - 1) % PAGE_SIZE) + 1
                       ELSE PAGE_SIZE)
            /\ s.lo < s.hi

\* C9 as stated: for every start and length whose pages are all mapped,
\* translated_byte_buffer returns, in ascending order, exactly k+1 slices
\* for a range crossing k page boundaries, whose lengths sum to the length
\* asked for, each in the physical page mapped for its virtual page and at
\* the same page offset.
C9_SlicesPerCrossing ==
    (bb_last.called /\ BbPages \subseteq DOMAIN pt_mapped) =>
        /\ ~bb_last.panic
        /\ Len(bb_last.slices) = BbCrossings + 1
        /\ SumLengths(bb_last.slices) = bb_last.len
        /\ BbSlicesInPlace

\* C9 amended: the same for every non-empty range; for a length of 0 the
\* result has no slice at all (not one).
C9_SlicesPerCrossingNonEmpty ==
    (bb_last.called /\ BbPages \subseteq DOMAIN pt_mapped) =>
        /\ ~bb_last.panic
        /\ SumLengths(bb_last.slices) = bb_last.len
        /\ IF bb_last.len = 0
           THEN bb_last.slices = << >>
           ELSE /\ Len(bb_last.slices) = BbCrossings + 1
                /\ BbSlicesInPlace

\* a buffer that starts inside a page and crosses two page boundaries, all
\* three pages mapped, came back as three slices
C9_Witness ==
    /\ bb_last.called /\ ~bb_last.panic
    /\ bb_last.start = 1 /\ bb_last.len = 2 * PAGE_SIZE
    /\ BbPages \subseteq DOMAIN pt_mapped
    /\ Len(bb_last.slices) = 3

\* C20: translated_byte_buffer only ever returns slices over physical pages
\* that a valid leaf entry maps for the virtual page: if a virtual page the
\* range start .. start + len touches has no valid leaf mapping in the
\* address space, the call ends in the fatal outcome and returns no slice
\* for that page (never a slice over physical page 0 for an unmapped page).
C20_SlicesOnlyOverMappedPages ==
    bb_last.called =>
        /\ (\E page \in BbPages : ~WalkValid(mem, root_ppn, page)) => bb_last.panic
        /\ ~bb_last.panic =>
               \A i \in 1..Len(bb_last.slices) :
                   /\ WalkValid(mem, root_ppn, BbFirstPage + i - 1)
                   /\ bb_last.slices[i].ppn = PageTableEntry_ppn(translate(mem, root_ppn, BbFirstPage + i - 1).pte)

(***************************************************************************)
(* PID allocator properties                                                *)
(***************************************************************************)
\* C5: over every sequence of pid_alloc calls and handle drops, no two live
\* PidHandles hold the same value, and alloc hands a value out only when no
\* live handle holds it (never issued, or its handle released since) and
\* takes it out of the pool.
C5_LiveHandlesDistinct ==
    /\ [](\A p \in DOMAIN pid_live : pid_live[p] <= 1)
    /\ [][(pid_log' # pid_log /\ Last(pid_log').op = "alloc") =>
              /\ pid_live[Last(pid_log').pid] = 0
              /\ pid_live'[Last(pid_log').pid] = 1
              /\ Last(pid_log').pid \notin Range(pid_recycled')]_vars

\* a value released and handed out again, with another handle alive
C5_Witness ==
    /\ \E i, j \in DOMAIN pid_log :
           /\ i < j
           /\ pid_log[i].op = "drop" /\ pid_log[j].op = "alloc"
           /\ pid_log[i].pid = pid_log[j].pid
           /\ pid_live[pid_log[j].pid] = 1
    /\ Cardinality({p \in DOMAIN pid_live : pid_live[p] = 1}) >= 2

\* the calls of the log that returned a value to the pool and whose value
\* no later alloc took back
StillFree(log) ==
    {i \in DOMAIN log :
        /\ log[i].op = "drop"
        /\ ~\E j \in DOMAIN log : j > i /\ log[j].op = "alloc" /\ log[j].pid = log[i].pid}

Issued(log) == {log[i].pid : i \in {j \in DOMAIN log : log[j].op = "alloc"}}

\* what alloc is to return after the calls of the log: the value of the
\* latest release still free, else one more than the largest value issued
ExpectedAlloc(log) ==
    IF StillFree(log) # {}
    THEN log[CHOOSE i \in StillFree(log) : \A j \in StillFree(log) : j <= i].pid
    ELSE IF Issued(log) = {} THEN 0
    ELSE (CHOOSE p \in Issued(log) : \A r \in Issued(log) : r <= p) + 1

\* C6: alloc returns the most recently recycled value still in the pool
\* (LIFO) when there is one, and otherwise the next never-issued value, one
\* more than the last; three allocs return 0, 1, 2, and after the release
\* of 1 the next alloc returns 1 and the one after returns 3.
C6_AllocLifoThenFresh ==
    /\ (pid_log # << >> /\ Last(pid_log).op = "alloc") =>
           Last(pid_log).pid = ExpectedAlloc(Front(pid_log))
    /\ ([i \in DOMAIN pid_log |-> pid_log[i].op] = <<"alloc", "alloc", "alloc", "drop", "alloc", "alloc">>
            /\ pid_log[4].pid = 1) =>
           [i \in DOMAIN pid_log |-> pid_log[i].pid] = <<0, 1, 2, 1, 1, 3>>

\* the scenario: three allocs, the release of 1, two allocs
C6_Witness ==
    /\ [i \in DOMAIN pid_log |-> pid_log[i].op] = <<"alloc", "alloc", "alloc", "drop", "alloc", "alloc">>
    /\ pid_log[4].pid = 1

\* C7: in every reachable allocator state, dealloc(p), called directly or
\* by the drop of a handle, panics when p was never issued (p >= current)
\* or is already in the pool, and leaves the pool as it was; otherwise it
\* does not panic and pushes p on the pool.
C7_DeallocChecks ==
    [][(pid_log' # pid_log /\ Last(pid_log').op \in {"drop", "dealloc"}) =>
          LET p == Last(pid_log').pid
          IN  IF p >= pid_current \/ p \in Range(pid_recycled)
              THEN /\ panicked'
                   /\ Last(pid_log').outcome = "panic"
                   /\ pid_recycled' = pid_recycled
              ELSE /\ ~panicked'
                   /\ Last(pid_log').outcome = "ok"
                   /\ pid_recycled' = Append(pid_recycled, p)]_vars

\* a handle dropped after its value was already returned to the pool
C7_Witness ==
    /\ panicked
    /\ pid_log # << >>
    /\ Last(pid_log).op = "drop"
    /\ Last(pid_log).outcome = "panic"
    /\ Last(pid_log).pid \in Range(pid_recycled)
    /\ Last(pid_log).pid < pid_current

(***************************************************************************)
(* Kernel stack placement properties                                       *)
(***************************************************************************)
\* the values live handles hold
LivePids == {p \in DOMAIN pid_live : pid_live[p] > 0}

\* C18: after any sequence of alloc and handle releases, the recycle pool
\* holds no value twice, every pooled value is below current, and the values
\* of the live handles and the pooled values are disjoint and together are
\* exactly 0 .. current - 1.
C18_PidConservation ==
    /\ \A i, j \in DOMAIN pid_recycled : i # j => pid_recycled[i] # pid_recycled[j]
    /\ \A i \in DOMAIN pid_recycled : pid_recycled[i] < pid_current
    /\ LivePids \cap Range(pid_recycled) = {}
    /\ LivePids \cup Range(pid_recycled) = 0..(pid_current - 1)

\* values have been issued, released and issued again: some are live and
\* some pooled
C18_Witness ==
    /\ pid_current >= 3
    /\ Len(pid_recycled) >= 1
    /\ Cardinality(LivePids) >= 2
    /\ \E i \in DOMAIN pid_log : pid_log[i].op = "alloc" /\ pid_log[i].pid < i - 1

\* the layout of the stacks of two PIDs whose results are P and Q:
\* top - bottom = KERNEL_STACK_SIZE and bottom is page aligned; distinct
\* PIDs have distinct tops; if p < q then top(q) < top(p) and the page below
\* bottom(p) lies wholly above top(q), so the two ranges are disjoint with
\* that guard page between them; if q = p + 1 then top(p) - top(q) =
\* KERNEL_STACK_SIZE + PAGE_SIZE and the guard page is exactly the gap
\* between the two stacks
KsLayout(p, q, P, Q) ==
    /\ WSub(P.top, P.bottom) = [val |-> FromNat(KERNEL_STACK_SIZE), ovf |-> FALSE]
    /\ VirtAddr_page_offset(P.bottom) = WZero
    /\ p = q => P = Q
    /\ p # q => P.top # Q.top
    /\ WLt(p, q) =>
           /\ WLt(Q.top, P.top)
           /\ ~WAdd(Q.top, FromNat(PAGE_SIZE)).ovf
           /\ WLe(WAdd(Q.top, FromNat(PAGE_SIZE)).val, P.bottom)
    /\ q = WAdd(p, FromNat(1)).val =>
           /\ WSub(P.top, Q.top) = [val |-> FromNat(KERNEL_STACK_SIZE + PAGE_SIZE), ovf |-> FALSE]
           /\ WAdd(Q.top, FromNat(PAGE_SIZE)).val = P.bottom

\* C8 as stated: kernel_stack_position is a pure function of the PID,
\* injective and strictly descending: for all PIDs p < q for which no
\* subtraction underflows, top(p) - top(p+1) = KERNEL_STACK_SIZE + PAGE_SIZE,
\* top - bottom = KERNEL_STACK_SIZE, and the two ranges are disjoint with a
\* guard page between them.
C8_KernelStackLayoutNoUnderflow ==
    (ks_out.done /\ ~ks_out.p.panic /\ ~ks_out.q.panic
         /\ ~ks_out.p.sub_underflow /\ ~ks_out.q.sub_underflow) =>
        KsLayout(ks_p, ks_q, ks_out.p, ks_out.q)

\* C8 amended: the same for all PIDs p < q for which neither the
\* multiplication overflows nor a subtraction underflows, which are exactly
\* the PIDs up to KS_LAST_PID; for a larger PID a build with overflow checks
\* panics and one without returns a wrapped result.
C8_KernelStackLayoutInRange ==
    ks_out.done =>
        /\ (ks_out.p.mul_overflow \/ ks_out.p.sub_underflow) <=> WLt(KS_LAST_PID, ks_p)
        /\ ks_out.p.panic <=> (overflow_checks /\ WLt(KS_LAST_PID, ks_p))
        /\ (WLe(ks_p, KS_LAST_PID) /\ WLe(ks_q, KS_LAST_PID)) =>
               KsLayout(ks_p, ks_q, ks_out.p, ks_out.q)

\* the two last PIDs of the range, placed without overflow, the lowest
\* stack one page above address 0
C8_Witness ==
    /\ ks_out.done
    /\ ks_q = KS_LAST_PID
    /\ ks_q = WAdd(ks_p, FromNat(1)).val
    /\ ~ks_out.p.panic /\ ~ks_out.q.panic
    /\ ks_out.q.bottom = FromNat(PAGE_SIZE)

\* the range of the kernel stack of pid
KsRange(pid) == kernel_stack_position(FromNat(pid), FALSE)

\* C19: for every order in which PidHandles and KernelStacks are created and
\* released, the two released independently, no two KernelStacks alive at
\* the same time occupy the same or overlapping ranges, and creating a
\* KernelStack never requests the mapping of a range that is still mapped by
\* another live KernelStack.
C19_LiveStacksNeverCollide ==
    /\ \A a, b \in kstacks :
           a # b => (WLe(KsRange(a.pid).top, KsRange(b.pid).bottom)
                        \/ WLe(KsRange(b.pid).top, KsRange(a.pid).bottom))
    /\ ~(ks_last.op = "new" /\ ks_last.outcome = "mapped")

C11_PollUntilTaskThenDispatch ==
    /\ [][(flow = NoTask /\ idle_pc = "loop" /\ ready_queue = {} /\ ready_queue' = {}) =>
              UNCHANGED <<proc_current, flow, idle_pc, task_cx, idle_task_cx, task_status>>]_vars
    /\ [][(idle_pc = "loop" /\ idle_pc' = "switch") =>
              /\ next_task_cx_ptr' \in ready_queue
              /\ proc_current' = next_task_cx_ptr']_vars
    /\ [][(flow = NoTask /\ flow' # NoTask) =>
              /\ idle_pc = "switch"
              /\ proc_last.op = "dispatch"
              /\ flow' = proc_last.task
              /\ flow' = next_task_cx_ptr]_vars
    /\ (flow = NoTask /\ idle_pc = "switch") ~> (flow # NoTask /\ flow = next_task_cx_ptr)
    /\ (flow = NoTask /\ idle_pc = "loop" /\ ready_queue # {}) ~> (flow # NoTask)

\* run_tasks has polled an empty queue and a task has now become available
C11_Witness ==
    /\ flow = NoTask /\ idle_pc = "loop"
    /\ proc_last.op = "poll"
    /\ ready_queue # {}

\* C12: when a running task calls schedule(cx_ptr), control next resumes in
\* run_tasks right after the __switch that dispatched that task, and the
\* loop goes on to fetch the next task; the switch away writes only the
\* context slot at cx_ptr and leaves the status and the timing counters of
\* every task and Processor.current as they were.
C12_ScheduleResumesRunTasks ==
    /\ [][(flow # NoTask /\ flow' = NoTask) =>
              /\ idle_pc = "switched" /\ next_task_cx_ptr = flow
              /\ idle_pc' = "after_switch"
              /\ proc_last'.op = "schedule"
              /\ \A s \in CxSlots : s # proc_last'.ret => task_cx'[s] = task_cx[s]
              /\ idle_task_cx' = idle_task_cx
              /\ task_status' = task_status
              /\ user_time' = user_time /\ kernel_time' = kernel_time
              /\ proc_current' = proc_current]_vars
    /\ [][(flow = NoTask /\ idle_pc = "after_switch" /\ idle_pc' # idle_pc) =>
              idle_pc' = "loop"]_vars

\* a task that is still current has called schedule with its own task_cx:
\* the idle flow stands right after its switch
C12_Witness ==
    /\ flow = NoTask /\ idle_pc = "after_switch"
    /\ proc_last.op = "schedule"
    /\ proc_last.ret = proc_last.task
    /\ proc_current = proc_last.task
    /\ task_cx[proc_last.task] = TaskContext("schedule")

\* the moves of a task's status the claim allows
StatusMoves ==
    {<<"UnInit", "Ready">>, <<"Ready", "Running">>, <<"Running", "Ready">>, <<"Running", "Exited">>}

C15_MarkedAndInstalledBeforeSwitch ==
    /\ [](idle_pc = "switch" =>
              /\ task_status[next_task_cx_ptr] = "Running"
              /\ proc_current = next_task_cx_ptr)
    /\ [][(flow = NoTask /\ flow' # NoTask) =>
              /\ task_status[flow'] = "Running"
              /\ proc_current = flow'
              /\ task_status' = task_status
              /\ proc_current' = proc_current]_vars

\* the idle flow has just switched into a task
C15_Witness ==
    /\ flow # NoTask
    /\ proc_last.op = "switch"
    /\ proc_current = flow
    /\ task_status[flow] = "Running"

\* C17: no exclusive-access guard is held across a context switch: at every
\* __switch of run_tasks and of schedule the guard on PROCESSOR and the
\* inner guard of the dispatched task have been released, so that in every
\* interleaving of run_tasks, schedule, take_current_task and current_task
\* through switches an exclusive_access on PROCESSOR never finds it borrowed.
C17_NoGuardAcrossSwitch ==
    /\ [](~panicked)
    /\ [](idle_pc = "switch" => (~processor_borrowed /\ next_task_cx_ptr \notin inner_borrowed))
    /\ [][flow' # flow =>
              /\ ~processor_borrowed /\ inner_borrowed = {}
              /\ ~processor_borrowed' /\ inner_borrowed' = {}]_vars

\* a task that was switched into, switched away from and into again has
\* taken the current task, itself, out of PROCESSOR
C17_Witness ==
    /\ ~panicked
    /\ flow # NoTask
    /\ task_cx[flow] = TaskContext("schedule")
    /\ proc_last.op = "take_current_task"
    /\ proc_last.ret = flow

(***************************************************************************)
(* Task timing properties                                                  *)
(***************************************************************************)
\* the update_kernel_time calls made on the control block of task t, in order
KtCalls(t) == SelectSeq(kt_log, LAMBDA c : c.task = t)

\* the sum of the values returned by the calls i..Len(cs) of cs
RECURSIVE SumReturned(_, _)
SumReturned(cs, i) == IF i > Len(cs) THEN 0 ELSE ToNat(cs[i].ret) + SumReturned(cs, i + 1)

KtAccounted(cs, mark) ==
    /\ \A i \in 2..Len(cs) :
           /\ ~cs[i].underflow
           /\ cs[i].ret = FromNat(cs[i].time - cs[i - 1].time)
    /\ Len(cs) >= 1 => mark = cs[Len(cs)].time
    /\ Len(cs) >= 2 => SumReturned(cs, 2) = cs[Len(cs)].time - cs[1].time

\* C14: each update_kernel_time call returns the current time minus the mark
\* the previous call stored, and stores the current time as the new mark in
\* the same call; so for any sequence of n calls under a non-decreasing
\* clock the values returned by calls 2..n sum to exactly the time at call n
\* minus the time at call 1, no interval lost or counted twice, and no
\* returned delta is negative (no subtraction underflows).
C14_KernelTimeDeltasAddUp ==
    /\ ~panicked
    /\ \A t \in Tasks : KtAccounted(KtCalls(t), kernel_time[t])

\* three calls on one control block at three different times, a call on
\* another control block in between
C14_Witness ==
    \E t \in Tasks :
        /\ Len(KtCalls(t)) = 3
        /\ KtCalls(t)[1].time < KtCalls(t)[2].time
        /\ KtCalls(t)[2].time < KtCalls(t)[3].time
        /\ Len(kt_log) = 4
        /\ kt_log[2].task # t
        /\ SumReturned(KtCalls(t), 2) = 2
====
